---- MODULE Spec2Model ----
(***************************************************************************)
(* Model of mordred's ABCIndex and Autocorrelation descriptor families and *)
(* of the per-molecule dependency resolution that evaluates them.          *)
(*                                                                         *)
(* Floating point numbers are modelled as exact rationals extended with    *)
(* NaN and signed infinity (numpy's non-raising float64 arithmetic);       *)
(* rounding is not modelled.                                               *)
(***************************************************************************)
EXTENDS Integers, Sequences, FiniteSets, TLC

\* ------------------------------------------------------------------ bounds

\* Largest number of atoms (explicit-hydrogen graph) of a molecule.
MaxAtoms == 3
\* Largest in-range order a single call requests besides the out-of-range ones.
MaxOrder == 2
\* Number of evaluate calls in a session of several calls on one molecule.
MaxCalls == 2
\* Largest order requested in such a session.
MaxSessionOrder == 1

\* ------------------------------------------------------- program constants

MAX_DISTANCE == 8

\* Distance reported for a pair of atoms with no path between them.
Sentinel == 1000

\* ------------------------------------------------------------------ floats

NaN == [k |-> "nan", n |-> 0, d |-> 1]
Inf(s) == [k |-> "inf", n |-> s, d |-> 1]

Abs(x) == IF x < 0 THEN -x ELSE x
Sign(x) == IF x < 0 THEN -1 ELSE IF x > 0 THEN 1 ELSE 0

RECURSIVE GCD(_, _)
GCD(a, b) == IF b = 0 THEN a ELSE GCD(b, a % b)

\* The rational n/d, d # 0, in lowest terms with a positive denominator.
Num(n, d) ==
    LET g == GCD(Abs(n), Abs(d))
        s == IF d < 0 THEN -1 ELSE 1
    IN  [k |-> "num", n |-> (s * n) \div g, d |-> (s * d) \div g]

Int2F(i) == Num(i, 1)
IsNaN(a) == a.k = "nan"
IsFinite(a) == a.k = "num"
IsZero(a) == a.k = "num" /\ a.n = 0

FNeg(a) == [a EXCEPT !.n = -a.n]

FAdd(a, b) ==
    IF IsNaN(a) \/ IsNaN(b) THEN NaN
    ELSE IF a.k = "inf" /\ b.k = "inf" THEN (IF a.n = b.n THEN a ELSE NaN)
    ELSE IF a.k = "inf" THEN a
    ELSE IF b.k = "inf" THEN b
    ELSE Num(a.n * b.d + b.n * a.d, a.d * b.d)

FSub(a, b) == FAdd(a, FNeg(b))

FMul(a, b) ==
    IF IsNaN(a) \/ IsNaN(b) THEN NaN
    ELSE IF a.k = "inf" \/ b.k = "inf"
         THEN (IF IsZero(a) \/ IsZero(b) THEN NaN ELSE Inf(Sign(a.n) * Sign(b.n)))
    ELSE Num(a.n * b.n, a.d * b.d)

\* numpy float64 true division: a zero divisor gives inf or nan, never a raise.
FDiv(a, b) ==
    IF IsNaN(a) \/ IsNaN(b) THEN NaN
    ELSE IF b.k = "inf" THEN (IF a.k = "inf" THEN NaN ELSE Int2F(0))
    ELSE IF IsZero(b) THEN (IF IsZero(a) THEN NaN ELSE Inf(Sign(a.n)))
    ELSE IF a.k = "inf" THEN Inf(Sign(a.n) * Sign(b.n))
    ELSE Num(a.n * b.d, a.d * b.n)

\* Python's `x or nan`: x when x is truthy (non-zero; NaN is truthy), else nan.
OrNaN(x) == IF IsZero(x) THEN NaN ELSE x

Half(a) == FMul(Num(1, 2), a)

\* ----------------------------------------------------------------- arrays

\* An array holds its entries: the function is evaluated once, when it is built.
Arr(f) == f @@ <<>>

RECURSIVE SumTo(_, _)
\* f[1] + ... + f[n], starting from 0.0
SumTo(f, n) == IF n = 0 THEN Int2F(0) ELSE FAdd(SumTo(f, n - 1), f[n])

VLen(v) == Len(v)
VSum(v) == SumTo(v, Len(v))
VSq(v) == Arr([i \in 1..Len(v) |-> FMul(v[i], v[i])])
\* numpy's mean of an array; the empty array gives nan (0.0 / 0)
VMean(v) == FDiv(VSum(v), Int2F(Len(v)))
VSubScalar(v, c) == Arr([i \in 1..Len(v) |-> FSub(v[i], c)])
VDot(a, b) == SumTo(Arr([i \in 1..Len(a) |-> FMul(a[i], b[i])]), Len(a))

\* A boolean entry used as a number.
B2F(b) == IF b THEN Int2F(1) ELSE Int2F(0)

\* v . M for a boolean matrix M over (1..n) x (1..n): the row vector
MatVDot(v, m) ==
    Arr([j \in 1..Len(v) |->
            SumTo(Arr([i \in 1..Len(v) |-> FMul(v[i], B2F(m[i][j]))]), Len(v))])

\* number of True entries of a boolean matrix of size n
RECURSIVE CountTo(_, _, _)
CountTo(m, n, r) ==
    IF r = 0 THEN 0
    ELSE CountTo(m, n, r - 1) + Cardinality({j \in 1..n : m[r][j]})

MSum(m, n) == CountTo(m, n, n)

\* ---------------------------------------------------------------- molecule

\* A molecule as the graph library and the property registry present it:
\*   n      atoms of the explicit-hydrogen graph, numbered 1..n
\*   heavy  atoms 1..heavy are the atoms of the hydrogen-suppressed graph
\*   edges  bonds, as pairs <<i, j>> with i < j
\*   w      per-atom value of each property selector, over atoms 1..n
\*   zeroed an atom whose degree the graph reports as 0 although it is bonded
\*          (a malformed molecule), or 0 for none
Pairs(n) == {p \in (1..n) \X (1..n) : p[1] < p[2]}

Min(a, b) == IF a < b THEN a ELSE b

Hop(edges, i, j) ==
    IF i = j THEN 0
    ELSE IF <<i, j>> \in edges \/ <<j, i>> \in edges THEN 1
    ELSE Sentinel

Via(d, i, j, k) ==
    IF d[i][k] >= Sentinel \/ d[k][j] >= Sentinel THEN Sentinel ELSE d[i][k] + d[k][j]

RECURSIVE MinVia(_, _, _, _)
MinVia(d, i, j, k) ==
    IF k = 0 THEN d[i][j] ELSE Min(Via(d, i, j, k), MinVia(d, i, j, k - 1))

RECURSIVE Relax(_, _, _)
\* `rounds` rounds of path doubling over atoms 1..n
Relax(d, n, rounds) ==
    IF rounds = 0 THEN d
    ELSE Relax(Arr([i \in 1..n |-> Arr([j \in 1..n |-> MinVia(d, i, j, n)])]), n, rounds - 1)

\* All-pairs shortest-path hop counts of the graph on atoms 1..n.
ShortestPaths(n, edges) ==
    Relax(Arr([i \in 1..n |-> Arr([j \in 1..n |-> Hop(edges, i, j)])]), n, n)

\* Atom count and bonds of the graph a hydrogen-visibility flag selects.
AtomCount(mol, explicit) == IF explicit THEN mol.n ELSE mol.heavy
BondSet(mol, explicit) ==
    {e \in mol.edges : e[1] <= AtomCount(mol, explicit) /\ e[2] <= AtomCount(mol, explicit)}

\* graph library: degree of atom u in the hydrogen-suppressed graph
GetDegree(mol, u) ==
    IF u = mol.zeroed THEN 0
    ELSE Cardinality({e \in BondSet(mol, FALSE) : e[1] = u \/ e[2] = u})

RECURSIVE SetToSeq(_)
\* the pairs of a set in lexicographic order
SetToSeq(S) ==
    IF S = {} THEN <<>>
    ELSE LET lo == CHOOSE x \in S :
                     \A y \in S : x[1] < y[1] \/ (x[1] = y[1] /\ x[2] <= y[2])
         IN  <<lo>> \o SetToSeq(S \ {lo})

\* graph library: the bonds of the hydrogen-suppressed graph
GetBonds(mol) == SetToSeq(BondSet(mol, FALSE))

\* --------------------------------------------------------------- identity

NoOwner == <<"", 0, "">>
Self(node) == <<node.cls, node.order, node.prop>>

AutocorrelationFamilies == {"ATS", "AATS", "ATSC", "AATSC", "MATS", "GATS"}
ABCFamilies == {"ABCIndex", "ABCGGIndex"}
PropClasses == {"CAVec"}
OrderClasses == {"GMat", "GSum"}
LeafClasses == {"AtomicProperty", "DistanceMatrix"}

\* Class attribute explicit_hydrogens.
explicit_hydrogens(cls) == IF cls \in ABCFamilies THEN FALSE ELSE TRUE

\* AutocorrelationBase.__init__(order, prop); `owner` stands for the Python
\* object that built this instance (every property access builds a new one).
NewNode(cls, order, prop, owner) ==
    [cls |-> cls, order |-> order, prop |-> prop,
     flag |-> explicit_hydrogens(cls), owner |-> owner]

\* AutocorrelationProp.__init__(prop); CAVec._order is the class attribute 0.
NewProp(cls, prop, owner) == NewNode(cls, 0, prop, owner)

\* AutocorrelationOrder.__init__(order); _prop is not an instance attribute.
NewOrder(cls, order, owner) == NewNode(cls, order, "", owner)

\* ABCIndexBase takes no construction parameters.
NewABC(cls, owner) == NewNode(cls, 0, "", owner)

\* Leaf provider requests.
AtomicProperty(explicit, prop, owner) ==
    [cls |-> "AtomicProperty", order |-> 0, prop |-> prop, flag |-> explicit, owner |-> owner]
DistanceMatrix(explicit, owner) ==
    [cls |-> "DistanceMatrix", order |-> 0, prop |-> "", flag |-> explicit, owner |-> owner]

\* Identity of a leaf provider request: the class and its arguments.
LeafIdentity(node) ==
    [cls |-> node.cls, order |-> 0, prop |-> node.prop, flag |-> node.flag, inst |-> NoOwner]

\* __reduce_ex__ bound to object identity: what default object equality gives.
ReduceByInstance(node) ==
    [cls |-> node.cls, order |-> node.order, prop |-> node.prop, flag |-> node.flag,
     inst |-> node.owner]

\* __reduce_ex__: (class, construction parameters).  A field that is not in
\* the parameter tuple of the class is blanked.
Reduce(node) ==
    IF node.cls \in LeafClasses THEN LeafIdentity(node)
    ELSE IF node.cls \in ABCFamilies
         THEN [cls |-> node.cls, order |-> 0, prop |-> "", flag |-> FALSE, inst |-> NoOwner]
    ELSE IF node.cls \in PropClasses
         THEN [cls |-> node.cls, order |-> 0, prop |-> node.prop, flag |-> FALSE, inst |-> NoOwner]
    ELSE IF node.cls \in OrderClasses
         THEN [cls |-> node.cls, order |-> node.order, prop |-> "", flag |-> FALSE, inst |-> NoOwner]
    ELSE [cls |-> node.cls, order |-> node.order, prop |-> node.prop, flag |-> FALSE,
          inst |-> NoOwner]

\* ------------------------------------------------- dependency declarations

\* AutocorrelationBase's properties
avec_noH_of(self) == AtomicProperty(FALSE, self.prop, Self(self))
avec_of(self) == AtomicProperty(explicit_hydrogens(self.cls), self.prop, Self(self))
cavec_of(self) == NewProp("CAVec", self.prop, Self(self))
gmat_of(self) == NewOrder("GMat", self.order, Self(self))
gsum_of(self) == NewOrder("GSum", self.order, Self(self))
ATS_self(self) == NewNode(self.cls, self.order, self.prop, Self(self))
ATS_of(self) == NewNode("ATS", self.order, self.prop, Self(self))
ATSC_of(self) == NewNode("ATSC", self.order, self.prop, Self(self))
AATSC_of(self) == NewNode("AATSC", self.order, self.prop, Self(self))

Dep(name, node) == [name |-> name, node |-> node]

ABCGGIndex_dependencies(self) ==
    <<Dep("D", DistanceMatrix(explicit_hydrogens(self.cls), Self(self)))>>
CAVec_dependencies(self) == <<Dep("avec", avec_of(self))>>
GMat_dependencies(self) ==
    <<Dep("dmat", DistanceMatrix(explicit_hydrogens(self.cls), Self(self)))>>
GSum_dependencies(self) == <<Dep("gmat", NewOrder("GMat", self.order, Self(self)))>>
ATS_dependencies(self) == <<Dep("avec", avec_of(self)), Dep("gmat", gmat_of(self))>>
AATS_dependencies(self) == <<Dep("ATS", ATS_of(self)), Dep("gsum", gsum_of(self))>>
ATSC_dependencies(self) == <<Dep("cavec", cavec_of(self)), Dep("gmat", gmat_of(self))>>
AATSC_dependencies(self) == <<Dep("ATSC", ATSC_of(self)), Dep("gsum", gsum_of(self))>>
MATS_dependencies(self) ==
    <<Dep("avec", avec_of(self)), Dep("AATSC", AATSC_of(self)), Dep("cavec", cavec_of(self))>>
GATS_dependencies(self) ==
    <<Dep("avec", avec_of(self)), Dep("gmat", gmat_of(self)),
      Dep("gsum", gsum_of(self)), Dep("cavec", cavec_of(self))>>

\* dependencies(): ABCIndex and the leaf providers declare none
Dependencies(self) ==
    CASE self.cls = "ABCGGIndex" -> ABCGGIndex_dependencies(self)
      [] self.cls = "CAVec" -> CAVec_dependencies(self)
      [] self.cls = "GMat" -> GMat_dependencies(self)
      [] self.cls = "GSum" -> GSum_dependencies(self)
      [] self.cls = "ATS" -> ATS_dependencies(self)
      [] self.cls = "AATS" -> AATS_dependencies(self)
      [] self.cls = "ATSC" -> ATSC_dependencies(self)
      [] self.cls = "AATSC" -> AATSC_dependencies(self)
      [] self.cls = "MATS" -> MATS_dependencies(self)
      [] self.cls = "GATS" -> GATS_dependencies(self)
      [] OTHER -> <<>>

\* ------------------------------------------------------------ calculation

\* A calculate step ends with a value or with a raised failure.
Ok(v) == [err |-> "", v |-> v]
Raised(what) == [err |-> what, v |-> NaN]

\* --- leaf providers
AtomicProperty_calculate(self, mol) ==
    Arr([i \in 1..AtomCount(mol, self.flag) |-> mol.w[self.prop][i]])

DistanceMatrix_calculate(self, mol) ==
    ShortestPaths(AtomCount(mol, self.flag), BondSet(mol, self.flag))

\* --- ABCIndex.py
\* np.sqrt of one ratio: nan for a negative or nan argument
Sqrt(q) ==
    IF IsNaN(q) \/ (q.k = "inf" /\ q.n < 0) \/ (q.k = "num" /\ q.n < 0) THEN NaN
    ELSE IF q.k = "inf" THEN q
    ELSE [k |-> "sqrt", n |-> q.n, d |-> q.d]

\* float(sum(terms)): the terms are kept as the radicands of the square roots
SqrtSum(terms) ==
    IF \E i \in 1..Len(terms) : terms[i].err # ""
    THEN Raised(terms[CHOOSE i \in 1..Len(terms) :
                          /\ terms[i].err # ""
                          /\ \A j \in 1..(i - 1) : terms[j].err = ""].err)
    ELSE IF \E i \in 1..Len(terms) : IsNaN(terms[i].v) THEN Ok(NaN)
    ELSE IF \E i \in 1..Len(terms) : terms[i].v.k = "inf" THEN Ok(Inf(1))
    ELSE Ok([k |-> "sqrtsum", terms |-> [i \in 1..Len(terms) |-> terms[i].v]])

\* ABCIndex._each_bond: Python float / int raises on a zero divisor
ABCIndex_each_bond(du, dv) ==
    IF du * dv = 0 THEN Raised("ZeroDivisionError")
    ELSE Ok(Sqrt(Num(du + dv - 2, du * dv)))

ABCIndex_calculate(self, mol) ==
    LET bonds == GetBonds(mol)
    IN  SqrtSum([b \in 1..Len(bonds) |->
                    ABCIndex_each_bond(GetDegree(mol, bonds[b][1]),
                                       GetDegree(mol, bonds[b][2]))])

\* ABCGGIndex._each_bond: nu, nv are numpy integers, so the division is numpy's
ABCGGIndex_each_bond(u, v, D, n) ==
    LET nu == Cardinality({x \in 1..n : D[u][x] < D[v][x]})
        nv == Cardinality({x \in 1..n : D[v][x] < D[u][x]})
    IN  Ok(Sqrt(FDiv(Int2F(nu + nv - 2), Int2F(nu * nv))))

ABCGGIndex_calculate(self, mol, D) ==
    LET bonds == GetBonds(mol)
    IN  SqrtSum([b \in 1..Len(bonds) |->
                    ABCGGIndex_each_bond(bonds[b][1], bonds[b][2], D, AtomCount(mol, FALSE))])

\* --- Autocorrelation.py
CAVec_calculate(self, avec) == VSubScalar(avec, VMean(avec))

GMat_calculate(self, dmat) ==
    Arr([i \in DOMAIN dmat |-> Arr([j \in DOMAIN dmat |-> dmat[i][j] = self.order])])

GSum_calculate_halved(self, gmat) == Half(Int2F(MSum(gmat, Len(gmat))))

GSum_calculate(self, gmat) ==
    LET s == Int2F(MSum(gmat, Len(gmat)))
    IN  IF self.order = 0 THEN s ELSE Half(s)

ATS_calculate_quadratic(self, avec, gmat) == Half(VDot(MatVDot(avec, gmat), avec))

ATS_calculate(self, avec, gmat) ==
    IF self.order = 0 THEN VSum(VSq(avec))
    ELSE Half(VDot(MatVDot(avec, gmat), avec))

AATS_calculate_or_one(self, ATS, gsum) ==
    FDiv(ATS, IF IsZero(gsum) THEN Int2F(1) ELSE gsum)

AATS_calculate(self, ATS, gsum) == FDiv(ATS, OrNaN(gsum))

ATSC_calculate(self, cavec, gmat) ==
    IF self.order = 0 THEN VSum(VSq(cavec))
    ELSE Half(VDot(MatVDot(cavec, gmat), cavec))

AATSC_calculate(self, ATSC, gsum) == FDiv(ATSC, OrNaN(gsum))

MATS_calculate(self, avec, AATSC, cavec) ==
    FDiv(FMul(Int2F(VLen(avec)), AATSC), OrNaN(VSum(VSq(cavec))))

\* (gmat * (avec[:, np.newaxis] - avec) ** 2).sum()
GearySum(avec, gmat) ==
    SumTo(Arr([i \in 1..Len(avec) |->
                  SumTo(Arr([j \in 1..Len(avec) |->
                                FMul(B2F(gmat[i][j]),
                                     FMul(FSub(avec[i], avec[j]), FSub(avec[i], avec[j])))]),
                        Len(avec))]),
          Len(avec))

GATS_body(avec, gmat, gsum, cavec) ==
    LET n == FDiv(GearySum(avec, gmat), FMul(Int2F(4), OrNaN(gsum)))
        d == FDiv(VSum(VSq(cavec)), Int2F(VLen(avec) - 1))
    IN  FDiv(n, OrNaN(d))

GATS_calculate_zero(self, avec, gmat, gsum, cavec) ==
    IF (\E i \in 1..Len(avec) : ~IsFinite(avec[i])) \/ VLen(avec) <= 1 THEN Int2F(0)
    ELSE GATS_body(avec, gmat, gsum, cavec)

GATS_calculate(self, avec, gmat, gsum, cavec) ==
    IF (\E i \in 1..Len(avec) : ~IsFinite(avec[i])) \/ VLen(avec) <= 1 THEN NaN
    ELSE GATS_body(avec, gmat, gsum, cavec)

\* calculate(mol, **resolved dependencies), bound by name
Calculate(self, mol, a) ==
    CASE self.cls = "AtomicProperty" -> Ok(AtomicProperty_calculate(self, mol))
      [] self.cls = "DistanceMatrix" -> Ok(DistanceMatrix_calculate(self, mol))
      [] self.cls = "ABCIndex" -> ABCIndex_calculate(self, mol)
      [] self.cls = "ABCGGIndex" -> ABCGGIndex_calculate(self, mol, a.D)
      [] self.cls = "CAVec" -> Ok(CAVec_calculate(self, a.avec))
      [] self.cls = "GMat" -> Ok(GMat_calculate(self, a.dmat))
      [] self.cls = "GSum" -> Ok(GSum_calculate(self, a.gmat))
      [] self.cls = "ATS" -> Ok(ATS_calculate(self, a.avec, a.gmat))
      [] self.cls = "AATS" -> Ok(AATS_calculate(self, a.ATS, a.gsum))
      [] self.cls = "ATSC" -> Ok(ATSC_calculate(self, a.cavec, a.gmat))
      [] self.cls = "AATSC" -> Ok(AATSC_calculate(self, a.ATSC, a.gsum))
      [] self.cls = "MATS" -> Ok(MATS_calculate(self, a.avec, a.AATSC, a.cavec))
      [] self.cls = "GATS" -> Ok(GATS_calculate(self, a.avec, a.gmat, a.gsum, a.cavec))

\* ------------------------------------------------------ evaluation engine

\* The state of one resolution: the per-molecule cache (identity -> value), the
\* calculate steps run so far, the nodes consulted, and the outcome of the
\* node resolved last (err = "" when it has a value).
EmptyFcn == [x \in {} |-> 0]

RECURSIVE Resolve(_, _, _, _)
RECURSIVE ResolveDeps(_, _, _, _, _, _)

\* Resolve deps[i..], collecting the resolved values by name in `args`.
ResolveDeps(deps, i, mol, st, inprog, args) ==
    IF i > Len(deps) THEN [st |-> st, args |-> args]
    ELSE LET r == Resolve(deps[i].node, mol, st, inprog)
         IN  IF r.err # "" THEN [st |-> r, args |-> args]
             ELSE ResolveDeps(deps, i + 1, mol, r, inprog,
                              args @@ (deps[i].name :> r.out))

\* Depth-first resolution of one node, consulting the cache first.
Resolve(node, mol, st, inprog) ==
    LET id == Reduce(node)
        seen == [st EXCEPT !.visited = @ \cup {node}, !.err = ""]
    IN  IF id \in DOMAIN st.cache THEN [seen EXCEPT !.out = st.cache[id]]
        ELSE IF id \in inprog THEN [seen EXCEPT !.err = "CyclicDependencyError"]
        ELSE LET r == ResolveDeps(Dependencies(node), 1, mol, seen, inprog \cup {id}, EmptyFcn)
             IN  IF r.st.err # "" THEN r.st
                 ELSE LET c == Calculate(node, mol, r.args)
                          ran == [r.st EXCEPT !.log = Append(@, node)]
                      IN  IF c.err # "" THEN [ran EXCEPT !.err = c.err]
                          ELSE [ran EXCEPT !.cache = @ @@ (id :> c.v), !.out = c.v]

\* ------------------------------------------------------- property registry

\* The registry's catalog: a selector, and the flags a query must set to get it.
Catalog ==
    << [name |-> "m", charge |-> FALSE, istate |-> FALSE],
       [name |-> "c", charge |-> TRUE, istate |-> FALSE],
       [name |-> "v", charge |-> FALSE, istate |-> FALSE],
       [name |-> "s", charge |-> FALSE, istate |-> TRUE] >>

\* get_properties(charge, istate): the selectors the flags admit, in order
get_properties(reg, charge, istate) ==
    LET admitted(e) == (e.charge => charge) /\ (e.istate => istate)
        picked == SelectSeq(reg, admitted)
    IN  [i \in 1..Len(picked) |-> picked[i].name]

\* range(lo, hi) as a sequence
Range(lo, hi) == [i \in 1..(IF hi > lo THEN hi - lo ELSE 0) |-> lo + i - 1]

\* (cls(d, a) for a in props for d in orders)
RECURSIVE Cross(_, _, _)
Cross(cls, props, orders) ==
    IF props = <<>> THEN <<>>
    ELSE [i \in 1..Len(orders) |-> NewNode(cls, orders[i], Head(props), NoOwner)]
         \o Cross(cls, Tail(props), orders)

ABC_preset(cls, reg) == <<NewABC(cls, NoOwner)>>

\* ATS.preset, inherited by AATS
ATS_preset(cls, reg) ==
    Cross(cls, get_properties(reg, FALSE, TRUE), Range(0, MAX_DISTANCE + 1))

\* ATSC.preset, inherited by AATSC
ATSC_preset(cls, reg) ==
    Cross(cls, get_properties(reg, TRUE, TRUE), Range(0, MAX_DISTANCE + 1))

MATS_preset_from_zero(cls, reg) ==
    Cross(cls, get_properties(reg, TRUE, TRUE), Range(0, MAX_DISTANCE + 1))

\* MATS.preset, inherited by GATS
MATS_preset(cls, reg) ==
    Cross(cls, get_properties(reg, TRUE, TRUE), Range(1, MAX_DISTANCE + 1))

Preset(cls, reg) ==
    CASE cls \in ABCFamilies -> ABC_preset(cls, reg)
      [] cls \in {"ATS", "AATS"} -> ATS_preset(cls, reg)
      [] cls \in {"ATSC", "AATSC"} -> ATSC_preset(cls, reg)
      [] cls \in {"MATS", "GATS"} -> MATS_preset(cls, reg)

\* ------------------------------------------------------------------ inputs

Props == {"m", "c"}
PropValues == {NaN, Int2F(1), Int2F(2)}

Chain(n) == {p \in Pairs(n) : p[2] = p[1] + 1}
Ramp(n) == Arr([i \in 1..n |-> Int2F(i)])
Alternating(n) == Arr([i \in 1..n |-> Int2F(IF i % 2 = 1 THEN -1 ELSE 1)])
Ones(n) == Arr([i \in 1..n |-> Int2F(1)])

Mol(n, heavy, edges, wm, wc, zeroed) ==
    [n |-> n, heavy |-> heavy, edges |-> edges, w |-> [p \in Props |-> IF p = "m" THEN wm ELSE wc],
     zeroed |-> zeroed]

\* every graph without hydrogens, and every chain ending in one hydrogen
GraphMols ==
    UNION {{Mol(n, n, e, Ramp(n), Alternating(n), 0) : e \in SUBSET Pairs(n)}
             \cup {Mol(n, h, Chain(n), Ramp(n), Alternating(n), 0) : h \in {x \in {n - 1} : x >= 0}}
           : n \in 0..MaxAtoms}

\* every property vector of finite and NaN entries, on a chain
PropertyMols ==
    UNION {{Mol(n, n, Chain(n), wm, Ones(n), 0) : wm \in [1..n -> PropValues]} : n \in 0..MaxAtoms}

\* one infinite property value, on a chain
InfiniteMols ==
    UNION {{Mol(n, n, Chain(n), [Ramp(n) EXCEPT ![i] = Inf(s)], Ones(n), 0) :
               i \in 1..n, s \in {-1, 1}} : n \in 0..MaxAtoms}

\* a chain with a bonded atom whose degree is reported as 0
MalformedMols ==
    UNION {{Mol(n, n, Chain(n), Ramp(n), Alternating(n), z) : z \in 1..n} : n \in 2..MaxAtoms}

Mols == GraphMols \cup PropertyMols \cup InfiniteMols \cup MalformedMols

\* the molecule of a session of several calls: a chain whose last atom is a hydrogen
SessionMols == {Mol(n, n - 1, Chain(n), Ramp(n), Alternating(n), 0) : n \in {MaxAtoms}}

\* subsequences of the catalog
Registries ==
    {SelectSeq(Catalog, LAMBDA e : e.name \in keep) : keep \in SUBSET {"m", "c", "v", "s"}}

SingleCallOrders == (0..MaxOrder) \cup {-1, MAX_DISTANCE + 1}
SessionOrders == 0..MaxSessionOrder

\* ------------------------------------------------------------------- state

VARIABLES
    mol,        \* the molecule of this evaluation session
    registry,   \* the property registry, fixed at process start
    orders,     \* the orders the caller of this run asks for
    budget,     \* calls the caller still makes
    cache,      \* per-molecule cache: node identity -> resolved value
    log,        \* the nodes whose calculate step ran, in order
    visited,    \* the nodes consulted by the last evaluate call
    req,        \* the last call: [op, cls, order, prop]
    res         \* its outcome: [err, v]

vars == <<mol, registry, orders, budget, cache, log, visited, req, res>>

NoReq == [op |-> "none", cls |-> "", order |-> 0, prop |-> ""]

Fresh ==
    /\ cache = EmptyFcn
    /\ log = <<>>
    /\ visited = {}
    /\ req = NoReq
    /\ res = Ok(NaN)

\* one call on any molecule, or on one molecule under any registry
Init ==
    /\ Fresh
    /\ orders = SingleCallOrders
    /\ budget = 1
    /\ \/ /\ mol \in Mols
          /\ registry = Catalog
       \/ /\ mol \in SessionMols
          /\ registry \in Registries

\* a session of several evaluate calls on one molecule
InitSession ==
    /\ Fresh
    /\ orders = SessionOrders
    /\ budget = MaxCalls
    /\ mol \in SessionMols
    /\ registry = Catalog

\* evaluate(node, mol): resolve the node against the session's cache
Evaluate(node) ==
    /\ budget > 0
    /\ \E r \in {Resolve(node, mol, [cache |-> cache, log |-> log, visited |-> {},
                                    err |-> "", out |-> NaN], {})} :
        /\ budget' = budget - 1
        /\ cache' = r.cache
        /\ log' = r.log
        /\ visited' = r.visited
        /\ req' = [op |-> "evaluate", cls |-> node.cls, order |-> node.order, prop |-> node.prop]
        /\ res' = IF r.err # "" THEN Raised(r.err) ELSE Ok(r.out)
        /\ UNCHANGED <<mol, registry, orders>>

\* Family(order, prop) followed by evaluate
EvaluateAutocorrelation ==
    \E cls \in AutocorrelationFamilies, order \in orders, prop \in Props :
        Evaluate(NewNode(cls, order, prop, NoOwner))

EvaluateABC ==
    \E cls \in ABCFamilies : Evaluate(NewABC(cls, NoOwner))

\* the intermediate nodes are descriptors too and can be requested
EvaluateIntermediate ==
    \/ \E prop \in Props : Evaluate(NewProp("CAVec", prop, NoOwner))
    \/ \E cls \in OrderClasses, order \in orders : Evaluate(NewOrder(cls, order, NoOwner))

\* Family.preset(): enumerate the canonical nodes of a family
EnumeratePreset ==
    \E cls \in AutocorrelationFamilies \cup ABCFamilies :
        /\ budget > 0
        /\ budget' = budget - 1
        /\ req' = [op |-> "preset", cls |-> cls, order |-> 0, prop |-> ""]
        /\ res' = Ok(Preset(cls, registry))
        /\ UNCHANGED <<mol, registry, orders, cache, log, visited>>

Next ==
    \/ EvaluateAutocorrelation
    \/ EvaluateABC
    \/ EvaluateIntermediate
    \/ EnumeratePreset

Spec == Init /\ [][Next]_vars

NextSession ==
    \/ EvaluateAutocorrelation
    \/ EvaluateABC

SpecSession == InitSession /\ [][NextSession]_vars

\* ----------------------------------------------------------------- claims

Evaluated(cls) == req.op = "evaluate" /\ req.cls = cls
Cached(node) == cache[Reduce(node)]

\* class and construction parameters of a node
SameIdentity(a, b) ==
    a.cls = b.cls /\ a.order = b.order /\ a.prop = b.prop /\ a.flag = b.flag

\* C1: within one session no two calculate steps run for nodes of the same
\* identity (class, construction parameters), whatever the sequence of
\* evaluate calls: a property vector, the distance matrix and each order-k
\* matrix are computed once however many descriptors need them.
C1_CalculateOncePerIdentity ==
    \A i, j \in 1..Len(log) : i # j => ~SameIdentity(log[i], log[j])

C1_Witness ==
    /\ budget = 0
    /\ \E i, j \in 1..Len(log) :
        /\ log[i].cls = "ATS" /\ log[i].order = 1 /\ log[i].prop = "m"
        /\ log[j].cls = "ATS" /\ log[j].order = 1 /\ log[j].prop = "c"
    /\ Cardinality({i \in 1..Len(log) : log[i].cls = "GMat" /\ log[i].order = 1}) = 1
    /\ Cardinality({i \in 1..Len(log) : log[i].cls = "DistanceMatrix"}) = 1

\* the node of a class for an order and a property, as a caller constructs it
NodeOf(cls, order, prop) ==
    IF cls \in ABCFamilies THEN NewABC(cls, NoOwner)
    ELSE IF cls \in PropClasses THEN NewProp(cls, prop, NoOwner)
    ELSE IF cls \in OrderClasses THEN NewOrder(cls, order, NoOwner)
    ELSE NewNode(cls, order, prop, NoOwner)

Canon(node) == [node EXCEPT !.owner = NoOwner]
Children(node) == {Canon(Dependencies(node)[i].node) : i \in 1..Len(Dependencies(node))}

RECURSIVE Closure(_)
\* the nodes reachable from the set S by declared dependencies, S included
Closure(S) ==
    LET T == S \cup UNION {Children(x) : x \in S}
    IN  IF T = S THEN S ELSE Closure(T)

RECURSIVE Grounded(_, _)
\* the nodes of U from which every chain of dependencies is finite
Grounded(U, G) ==
    LET H == {x \in U : Children(x) \subseteq G}
    IN  IF H = G THEN G ELSE Grounded(U, H)

Acyclic(node) ==
    LET below == Closure(Children(node))
    IN  /\ Reduce(node) \notin {Reduce(x) : x \in below}
        /\ Grounded(below \cup {node}, {}) = below \cup {node}
        /\ \A x \in below : Children(x) = {} => x.cls \in LeafClasses

\* C2: the declared dependencies are acyclic: from the node of any requested
\* class and property, at every order 0..MAX_DISTANCE, they never lead back to
\* a node of the same identity; every chain is finite and, below a node that
\* declares dependencies, ends in a property vector or a distance matrix; and
\* no evaluation ends in a cyclic-dependency failure.
C2_DependenciesAcyclic ==
    req.op = "evaluate" =>
        /\ \A k \in 0..MAX_DISTANCE : Acyclic(NodeOf(req.cls, k, req.prop))
        /\ res.err # "CyclicDependencyError"

C2_Witness ==
    /\ Evaluated("MATS")
    /\ res.err = ""
    /\ {"AATSC", "ATSC", "CAVec", "GMat", "GSum", "AtomicProperty", "DistanceMatrix"}
         \subseteq {x.cls : x \in visited}

OutOfRange(cls, order) ==
    \/ order < 0
    \/ order > MAX_DISTANCE
    \/ cls \in {"MATS", "GATS"} /\ order < 1

\* C3: an autocorrelation node with an order outside its family's bounds is
\* rejected with a configuration error at construction or first evaluation and
\* never evaluated to a result.
C3_OutOfRangeOrderRejected ==
    (req.op = "evaluate" /\ req.cls \in AutocorrelationFamilies
        /\ OutOfRange(req.cls, req.order))
    => res.err = "ConfigurationError"

\* q = a / b for a non-zero finite b, by cross-multiplication
IsRatio(q, a, b) ==
    IF IsNaN(a) THEN IsNaN(q)
    ELSE IF a.k = "inf" THEN q = Inf(a.n * Sign(b.n))
    ELSE q.k = "num" /\ q.n * a.d * b.n = a.n * b.d * q.d

AveragedOver(cls) == IF cls = "AATS" THEN "ATS" ELSE "ATSC"

\* C4: AATS(k,p) and AATSC(k,p) never raise; they are NaN when the order-k
\* pair count GSum(k) is zero, and otherwise ATS(k,p) (resp. ATSC(k,p)) divided
\* by that pair count.
C4_AveragedByPairCount ==
    \A cls \in {"AATS", "AATSC"} :
        Evaluated(cls) =>
            LET gsum == Cached(NewOrder("GSum", req.order, NoOwner))
                base == Cached(NewNode(AveragedOver(cls), req.order, req.prop, NoOwner))
            IN  /\ res.err = ""
                /\ IsFinite(gsum)
                /\ IsZero(gsum) => IsNaN(res.v)
                /\ ~IsZero(gsum) => IsRatio(res.v, base, gsum)

C4_Witness ==
    /\ Evaluated("AATS")
    /\ req.order = MaxOrder
    /\ mol.n >= 2
    /\ \A i \in 1..mol.n : IsFinite(mol.w[req.prop][i])
    /\ IsZero(Cached(NewOrder("GSum", req.order, NoOwner)))
    /\ IsNaN(res.v)

\* C5: GATS(k,p) is NaN, without raising, for every order and property when
\* the explicit-hydrogen graph has at most one atom, and whenever an entry of
\* the property vector is not finite.
C5_GATSGuard ==
    (Evaluated("GATS")
        /\ (mol.n <= 1 \/ \E i \in 1..mol.n : ~IsFinite(mol.w[req.prop][i])))
    => (res.err = "" /\ IsNaN(res.v))

C5_Witness ==
    /\ Evaluated("GATS")
    /\ mol.n = 1
    /\ IsFinite(mol.w[req.prop][1])
    /\ req.order = 0
    /\ res.err = "" /\ IsNaN(res.v)

Enumerates(out, cls, props, lo, hi) ==
    /\ Len(out) = (hi - lo + 1) * Len(props)
    /\ \A i, j \in 1..Len(out) : i # j => Reduce(out[i]) # Reduce(out[j])
    /\ {<<x.cls, x.order, x.prop>> : x \in {out[i] : i \in 1..Len(out)}}
         = {<<cls, d, props[a]>> : d \in lo..hi, a \in 1..Len(props)}

\* C6: ATS.preset() yields (MAX_DISTANCE+1) * propertyCount nodes of pairwise
\* distinct identity, one for every order 0..MAX_DISTANCE and every selector
\* the registry query returns; MATS.preset() and GATS.preset() yield
\* MAX_DISTANCE * propertyCount nodes, for the orders 1..MAX_DISTANCE only.
C6_PresetEnumeration ==
    req.op = "preset" =>
        /\ req.cls = "ATS" =>
             Enumerates(res.v, "ATS", get_properties(registry, FALSE, TRUE), 0, MAX_DISTANCE)
        /\ req.cls \in {"MATS", "GATS"} =>
             Enumerates(res.v, req.cls, get_properties(registry, TRUE, TRUE), 1, MAX_DISTANCE)

C6_Witness ==
    /\ req.op = "preset"
    /\ req.cls = "GATS"
    /\ Len(get_properties(registry, TRUE, TRUE)) >= 2
    /\ Len(res.v) = MAX_DISTANCE * Len(get_properties(registry, TRUE, TRUE))

\* C7: every node consulted while one descriptor is evaluated carries that
\* descriptor's hydrogen-visibility flag: True under an autocorrelation
\* descriptor, False under an ABC index.
C7_OneHydrogenFlagPerGraph ==
    req.op = "evaluate" =>
        \A x \in visited : x.flag = (req.cls \notin ABCFamilies)

C7_Witness ==
    /\ Evaluated("GATS")
    /\ \E x \in visited : x.cls = "DistanceMatrix" /\ x.flag
    /\ \E x \in visited : x.cls = "AtomicProperty" /\ x.flag

HasZeroDegreeBond ==
    \E e \in BondSet(mol, FALSE) : GetDegree(mol, e[1]) * GetDegree(mol, e[2]) = 0

RECURSIVE SquaresTo(_, _)
SquaresTo(w, n) == IF n = 0 THEN Int2F(0) ELSE FAdd(SquaresTo(w, n - 1), FMul(w[n], w[n]))

\* C9: ATS(0,p) is the sum of the squared property values, and its calculate
\* step returns that same value for the order-0 matrix of every distance
\* matrix of the molecule's size.
C9_OrderZeroIgnoresDistances ==
    (Evaluated("ATS") /\ req.order = 0) =>
        LET self == NewNode("ATS", 0, req.prop, NoOwner)
            avec == Cached(avec_of(self))
        IN  /\ res.err = ""
            /\ res.v = SquaresTo(mol.w[req.prop], mol.n)
            /\ \A e \in SUBSET Pairs(mol.n) :
                 ATS_calculate(self, avec,
                               GMat_calculate(gmat_of(self), ShortestPaths(mol.n, e))) = res.v

C9_Witness ==
    /\ Evaluated("ATS") /\ req.order = 0
    /\ mol.n = MaxAtoms
    /\ mol.edges # {}
    /\ res.v.k = "num" /\ res.v.n > mol.n

IsDistanceMatrix(D, n) ==
    /\ Sentinel \notin 0..MAX_DISTANCE
    /\ \A i, j \in 1..n :
        /\ D[i][j] = D[j][i]
        /\ (i = j) => D[i][j] = 0
        /\ (i # j) => D[i][j] > 0

\* C10: over a symmetric distance matrix with zero diagonal and positive
\* off-diagonal entries, GSum(k) is the number of unordered pairs of distinct
\* atoms at distance exactly k for k > 0 and the atom count for k = 0; GMat(k)
\* is symmetric and GSum(k) is a whole number.
C10_GSumCountsPairs ==
    (Evaluated("GSum") /\ req.order >= 0) =>
        LET D == Cached(DistanceMatrix(TRUE, NoOwner))
            B == Cached(NewOrder("GMat", req.order, NoOwner))
        IN  IsDistanceMatrix(D, mol.n) =>
              /\ res.err = ""
              /\ \A i, j \in 1..mol.n : B[i][j] = B[j][i]
              /\ res.v = Int2F(IF req.order = 0 THEN mol.n
                               ELSE Cardinality({p \in Pairs(mol.n) : D[p[1]][p[2]] = req.order}))

C10_Witness ==
    /\ Evaluated("GSum")
    /\ req.order = 2
    /\ IsDistanceMatrix(Cached(DistanceMatrix(TRUE, NoOwner)), mol.n)
    /\ res.v = Int2F(1)

====
